---- MODULE Spec2Model ----
(***************************************************************************)
(* Model of mobile_app/api.py: mobile login / token issuance, the employee *)
(* settings resolver and configuration endpoint, the geofence validator,   *)
(* photo intake, the check-in / check-out recorder and the check-in        *)
(* records listing.                                                        *)
(*                                                                         *)
(* Conventions                                                             *)
(*  - Python values whose type matters (None / number / string) are tagged *)
(*    records: None, Num(n), Str(s).  Truthy models Python truthiness.     *)
(*  - Documents are functions from field names to values; a field that is  *)
(*    not installed on the doctype is absent from the DOMAIN (hasattr).    *)
(*  - Datetimes are integers counting slots; a calendar day is             *)
(*    SlotsPerDay consecutive slots.                                       *)
(*  - Lengths (distance, radius) are integers counting 1/RadiusScale m.    *)
(*  - A raised exception is a record [exc, msg]; exc = "None" means that   *)
(*    nothing was raised.                                                  *)
(*  - A call is one step, and Return hands its response over before the   *)
(*    next call starts; SpecRace alone lets two calls of                   *)
(*    create_checkin_checkout overlap.                                     *)
(***************************************************************************)
EXTENDS Integers, FiniteSets, Sequences, TLC

VARIABLES
    records,    \* the stored "Employee Checkin" documents
    files,      \* the stored "File" documents
    users,      \* the stored API credentials of the "User" documents
    hashes,     \* number of hashes frappe.generate_hash has handed out
    now,        \* the server clock (get_datetime() without argument)
    pending,    \* per request worker: the call it is in the middle of
    last        \* the last endpoint call: its input and what it returned

vars == <<records, files, users, hashes, now, pending, last>>

----------------------------------------------------------------------------
(* Bounds of the model *)

Days == 2               \* calendar days 0 .. Days-1 (plus midnight of day Days)
SlotsPerDay == 2        \* datetimes per calendar day
MaxRecords == 3         \* cap on the number of stored check-in records
MaxHashes == 3          \* cap on the number of generated hashes

MaxTime == Days * SlotsPerDay
Times == 0 .. MaxTime

----------------------------------------------------------------------------
(* Python values *)

None == [tag |-> "None"]
Num(n) == [tag |-> "num", num |-> n]
Str(s) == [tag |-> "str", str |-> s]
Bool(b) == [tag |-> "bool", bool |-> b]

\* bool(v) / "if v" / "not v"
Truthy(v) ==
    CASE v.tag = "None" -> FALSE
      [] v.tag = "num" -> v.num # 0
      [] v.tag = "str" -> v.str # ""
      [] v.tag = "bool" -> v.bool

\* the strings float() accepts, with the number each denotes
FloatOfStr == [s \in {"0", "1", "5"} |-> CASE s = "0" -> 0 [] s = "1" -> 1 [] s = "5" -> 5]

\* float(v) succeeds (no ValueError / TypeError)
CanFloat(v) ==
    CASE v.tag = "None" -> FALSE
      [] v.tag = "num" -> TRUE
      [] v.tag = "str" -> v.str \in DOMAIN FloatOfStr

\* float(v), defined when CanFloat(v)
Float(v) == IF v.tag = "num" THEN v.num ELSE FloatOfStr[v.str]

Abs(n) == IF n < 0 THEN -n ELSE n

\* hasattr(doc, f) and getattr(doc, f, default)
HasAttr(doc, f) == f \in DOMAIN doc
GetAttr(doc, f, default) == IF f \in DOMAIN doc THEN doc[f] ELSE default

NoExc == [exc |-> "None", msg |-> ""]
Raise(cls, m) == [exc |-> cls, msg |-> m]

----------------------------------------------------------------------------
(* The site's read-only documents *)

RadiusScale == 2        \* length units per metre
DistPerDegree == 3      \* length units per degree of the distance collaborator

SiteDB ==
    [ Company |->
        [ c \in {"C-DEPT", "C-PROJ"} |->
            IF c = "C-DEPT"
            THEN [custom_attendnace_validations_based_on_department |-> Num(1)]
            ELSE [custom_attendnace_validations_based_on_department |-> None] ],
      Department |->
        [ d \in {"D1", "D2"} |->
            IF d = "D1"
            THEN [ custom_required_to_upload_location_photo |-> Num(0),
                   custom_required_to_upload_client_bio_metric_photo |-> None,
                   custom_required_location_check_on_check_out |-> Num(0),
                   custom_project |-> None ]
            ELSE [ custom_required_to_upload_location_photo |-> Num(0),
                   custom_required_to_upload_client_bio_metric_photo |-> Num(0),
                   custom_required_location_check_on_check_out |-> Num(0),
                   custom_project |-> Str("P1") ] ],
      Project |->
        [ p \in {"P1"} |->
            [ custom_required_to_upload_location_photo |-> Num(1),
              custom_required_to_upload_client_bio_metric_photo |-> Num(1),
              custom_required_location_check_on_check_out |-> Num(1) ] ],
      Branch |->
        [ b \in {"B1", "B2"} |->
            IF b = "B1"
            THEN [ custom_latitude |-> Num(0), custom_longitude |-> Num(1),
                   custom_radius_in_meters |-> Num(7) ]
            ELSE [ custom_latitude |-> Num(0), custom_longitude |-> Num(1),
                   custom_radius_in_meters |-> None ] ],
      Employee |->
        [ e \in {"EMP-A", "EMP-B", "EMP-W", "EMP-X", "EMP-Y", "EMP-Z"} |->
            CASE e = "EMP-A" ->
                   [ name |-> e, status |-> "Active", company |-> Str("C-DEPT"),
                     department |-> Str("D1"), branch |-> Str("B1"),
                     company_email |-> "a@x" ]
              [] e = "EMP-B" ->
                   [ name |-> e, status |-> "Active", company |-> Str("C-PROJ"),
                     department |-> Str("D2"), branch |-> Str("B1"),
                     company_email |-> "b@x" ]
              [] e = "EMP-W" ->
                   [ name |-> e, status |-> "Active", company |-> Str("C-PROJ"),
                     department |-> Str("D1"), branch |-> Str("B1"),
                     company_email |-> "w@x" ]
              [] e = "EMP-X" ->
                   [ name |-> e, status |-> "Left", company |-> Str("C-DEPT"),
                     department |-> Str("D1"), branch |-> Str("B1"),
                     company_email |-> "x@x" ]
              [] e = "EMP-Y" ->
                   [ name |-> e, status |-> "Active", company |-> Str("C-DEPT"),
                     department |-> Str("D1"), branch |-> Str("B2"),
                     company_email |-> "y@x" ]
              [] e = "EMP-Z" ->
                   [ name |-> e, status |-> "Active", company |-> Str("C-DEPT"),
                     department |-> Str("D1"), branch |-> None,
                     company_email |-> "z@x" ] ],
      User |->
        [ u \in {"u-a", "u-none", "u-stray"} |->
            CASE u = "u-a" -> [email |-> "a@x"]
              [] u = "u-none" -> [email |-> ""]
              [] u = "u-stray" -> [email |-> "nobody@x"] ] ]

----------------------------------------------------------------------------
(* Settings resolver *)

\* the three rule flags read from a Department or Project document
RuleFlags(doc) ==
    LET loc == GetAttr(doc, "custom_required_to_upload_location_photo", None)
        bio == GetAttr(doc, "custom_required_to_upload_client_bio_metric_photo", None)
        out == GetAttr(doc, "custom_required_location_check_on_check_out", None)
    IN  [ required_to_upload_location_photo |-> Truthy(loc),
          required_to_upload_client_bio_metric_photo |-> Truthy(bio),
          require_location_check_on_check_out |-> Truthy(out) ]

\* none of the three rule fields, or only some of them, exist on the document
NoRuleFields_AnyMissing(doc) ==
    ~ ( HasAttr(doc, "custom_required_to_upload_location_photo")
        /\ HasAttr(doc, "custom_required_to_upload_client_bio_metric_photo")
        /\ HasAttr(doc, "custom_required_location_check_on_check_out") )

\* none of the three rule fields exists on the document
NoRuleFields(doc) ==
    ~ ( HasAttr(doc, "custom_required_to_upload_location_photo")
        \/ HasAttr(doc, "custom_required_to_upload_client_bio_metric_photo")
        \/ HasAttr(doc, "custom_required_location_check_on_check_out") )

NoFlags ==
    [ required_to_upload_location_photo |-> FALSE,
      required_to_upload_client_bio_metric_photo |-> FALSE,
      require_location_check_on_check_out |-> FALSE ]

\* int(radius): truncation to whole metres
IntRadius(r) == (r \div RadiusScale) * RadiusScale

\* department mode whenever the company carries the flag field, whatever its value
UseDepartmentSettings_FieldPresent(company_doc) ==
    HasAttr(company_doc, "custom_attendnace_validations_based_on_department")

\* lines 215-217 and 349-351: the company flag that selects the settings source
UseDepartmentSettings(company_doc) ==
    Truthy(GetAttr(company_doc, "custom_attendnace_validations_based_on_department", Num(0)))

SettingsError(m) ==
    [ err |-> Raise("ValidationError", m), flags |-> NoFlags,
      branch_latitude |-> 0, branch_longitude |-> 0, branch_radius |-> 0 ]

\* BranchSettings with a default radius for a branch that has none
BranchSettings_DefaultRadius(db, employee, flags) ==
    LET branch == GetAttr(employee, "branch", None)
    IN  IF ~Truthy(branch) THEN SettingsError("no branch")
        ELSE
          LET branch_doc == db.Branch[branch.str]
              latitude == GetAttr(branch_doc, "custom_latitude", None)
              longitude == GetAttr(branch_doc, "custom_longitude", None)
              radius == GetAttr(branch_doc, "custom_radius_in_meters", None)
          IN  IF latitude = None \/ longitude = None
              THEN SettingsError("branch has no location")
              ELSE [ err |-> NoExc, flags |-> flags,
                     branch_latitude |-> Float(latitude),
                     branch_longitude |-> Float(longitude),
                     branch_radius |-> IF radius = None THEN 100 * RadiusScale
                                       ELSE IntRadius(Float(radius)) ]

\* the branch part of _get_employee_settings, reached with resolved flags
BranchSettings(db, employee, flags) ==
    LET branch == GetAttr(employee, "branch", None)
    IN  IF ~Truthy(branch) THEN SettingsError("no branch")
        ELSE
          LET branch_doc == db.Branch[branch.str]
              latitude == GetAttr(branch_doc, "custom_latitude", None)
              longitude == GetAttr(branch_doc, "custom_longitude", None)
              radius == GetAttr(branch_doc, "custom_radius_in_meters", None)
          IN  IF latitude = None \/ longitude = None \/ radius = None
              THEN SettingsError("branch has no location")
              ELSE [ err |-> NoExc, flags |-> flags,
                     branch_latitude |-> Float(latitude),
                     branch_longitude |-> Float(longitude),
                     branch_radius |-> IntRadius(Float(radius)) ]

_get_employee_settings(db, employee) ==
    LET department == GetAttr(employee, "department", None)
        company == GetAttr(employee, "company", None)
    IN  IF ~Truthy(company) THEN SettingsError("no company")
        ELSE
          LET company_doc == db.Company[company.str]
              use_department_settings == UseDepartmentSettings(company_doc)
          IN  IF use_department_settings
              THEN IF ~Truthy(department) THEN SettingsError("no department")
                   ELSE LET department_doc == db.Department[department.str]
                        IN  IF NoRuleFields(department_doc)
                            THEN SettingsError("department has no settings")
                            ELSE BranchSettings(db, employee, RuleFlags(department_doc))
              ELSE IF ~Truthy(department) THEN SettingsError("no department")
                   ELSE LET department_doc == db.Department[department.str]
                            project == GetAttr(department_doc, "custom_project", None)
                        IN  IF ~Truthy(project) THEN SettingsError("no project")
                            ELSE LET project_doc == db.Project[project.str]
                                 IN  IF NoRuleFields(project_doc)
                                     THEN SettingsError("project has no settings")
                                     ELSE BranchSettings(db, employee, RuleFlags(project_doc))

\* lines 693-726 (and 157-169, 1000-1012): the employee the call is about
ResolveEmployee(db, employee_id, session_user) ==
    IF employee_id # ""
    THEN IF employee_id \notin DOMAIN db.Employee
         THEN [err |-> Raise("DoesNotExistError", "employee not found"), name |-> ""]
         ELSE [err |-> NoExc, name |-> employee_id]
    ELSE LET user_email == db.User[session_user].email
             matches == {e \in DOMAIN db.Employee :
                            db.Employee[e].company_email = user_email}
         IN  IF user_email = ""
             THEN [err |-> Raise("ValidationError", "user has no email"), name |-> ""]
             ELSE IF matches = {}
             THEN [err |-> Raise("DoesNotExistError", "no employee for user email"),
                   name |-> ""]
             ELSE [err |-> NoExc, name |-> CHOOSE e \in matches : TRUE]

\* the branch block of the configuration response when the call has failed
NoBranchInfo == [latitude |-> None, longitude |-> None, checkin_radius_meters |-> None]

ConfigurationResult(err, flags, settings_source) ==
    [ err |-> err, flags |-> flags, settings_source |-> settings_source,
      branch |-> NoBranchInfo ]

ConfigurationError(m) == ConfigurationResult(Raise("ValidationError", m), NoFlags, "")

\* lines 205-292 of get_employee_configuration: the rules of the selected source
ConfigurationRules(db, employee) ==
    LET department == GetAttr(employee, "department", None)
        company == GetAttr(employee, "company", None)
    IN  IF ~Truthy(company) THEN ConfigurationError("no company")
        ELSE
          LET company_doc == db.Company[company.str]
              use_department_settings == UseDepartmentSettings(company_doc)
          IN  IF use_department_settings
              THEN IF ~Truthy(department) THEN ConfigurationError("no department")
                   ELSE LET department_doc == db.Department[department.str]
                        IN  IF NoRuleFields(department_doc)
                            THEN ConfigurationError("department has no settings")
                            ELSE ConfigurationResult(NoExc, RuleFlags(department_doc),
                                                     "department")
              ELSE IF ~Truthy(department) THEN ConfigurationError("no department")
                   ELSE LET department_doc == db.Department[department.str]
                            project == GetAttr(department_doc, "custom_project", None)
                        IN  IF ~Truthy(project) THEN ConfigurationError("no project")
                            ELSE LET project_doc == db.Project[project.str]
                                 IN  IF NoRuleFields(project_doc)
                                     THEN ConfigurationError("project has no settings")
                                     ELSE ConfigurationResult(NoExc, RuleFlags(project_doc),
                                                              "project")

get_employee_configuration(db, employee_id, session_user) ==
    LET emp == ResolveEmployee(db, employee_id, session_user)
    IN  IF emp.err.exc # "None" THEN ConfigurationResult(emp.err, NoFlags, "")
        ELSE
          LET employee == db.Employee[emp.name]
              branch == GetAttr(employee, "branch", None)
          IN  IF GetAttr(employee, "company_email", "") = ""
              THEN ConfigurationError("no company email")
              ELSE IF ~Truthy(branch) THEN ConfigurationError("no branch")
              ELSE
                LET branch_doc == db.Branch[branch.str]
                    latitude == GetAttr(branch_doc, "custom_latitude", None)
                    longitude == GetAttr(branch_doc, "custom_longitude", None)
                    radius == GetAttr(branch_doc, "custom_radius_in_meters", None)
                    rules == ConfigurationRules(db, employee)
                IN  IF latitude = None \/ longitude = None \/ radius = None
                    THEN ConfigurationError("branch has no location")
                    ELSE IF rules.err.exc # "None" THEN rules
                    ELSE [rules EXCEPT !.branch =
                              [ latitude |-> latitude, longitude |-> longitude,
                                checkin_radius_meters |-> radius ]]

----------------------------------------------------------------------------
(* Geofence validator *)

\* the distance collaborator (hrms get_distance_between_coordinates): a
\* deterministic, symmetric, non-negative distance over the degree grid
get_distance_between_coordinates(lat1, long1, lat2, long2) ==
    DistPerDegree * (Abs(lat2 - lat1) + Abs(long2 - long1))

LocationResult(err, distance) == [err |-> err, distance |-> distance]

_validate_location(latitude, longitude, branch_latitude, branch_longitude, branch_radius, log_type) ==
    IF ~Truthy(latitude) \/ ~Truthy(longitude)
    THEN LocationResult(Raise("ValidationError", "coordinates required"), -1)
    ELSE IF ~CanFloat(latitude) \/ ~CanFloat(longitude)
    THEN LocationResult(Raise("ValidationError", "invalid coordinates"), -1)
    ELSE
      LET lat == Float(latitude)
          lon == Float(longitude)
          distance == get_distance_between_coordinates(
                          branch_latitude, branch_longitude, lat, lon)
      IN  IF ~(-90 <= lat /\ lat <= 90)
          THEN LocationResult(Raise("ValidationError", "invalid latitude"), -1)
          ELSE IF ~(-180 <= lon /\ lon <= 180)
          THEN LocationResult(Raise("ValidationError", "invalid longitude"), -1)
          ELSE IF distance > branch_radius
          THEN LocationResult(Raise("CheckinRadiusExceededError", "radius exceeded"),
                              distance)
          ELSE LocationResult(NoExc, distance)

----------------------------------------------------------------------------
(* File documents and photo intake *)

\* Document names are opaque unique ids, modelled as tuples.
NoFile == <<>>                  \* None as a file id, or no file document
UploadedFile == <<"upload">>    \* name of a File uploaded before any check-in call
UnknownFile == <<"unknown">>    \* a file id that names no File document
NoCheckin == <<>>               \* no Employee Checkin document

MaxPhotoBytes == 5 * 1024 * 1024

FileExists(fls, id) == \E f \in fls : f.name = id

\* the name save_file gives to the File it creates for a check-in: unique,
\* since a call saves at most one photo of each type for its check-in
NextFileName(checkin_id, photo_type) == <<checkin_id, photo_type>>

\* the file_url of the File document named id: a path, never a document name
FileUrl(id) == IF id = NoFile THEN NoFile ELSE <<"/files", id>>

\* Photo values.  A string carries the File name it spells (UnknownFile when it
\* spells none), whether it starts with "data:", the number of bytes
\* base64.b64decode yields for it (-1 when b64decode raises), and whether it
\* is the empty string.
NoPhoto == [tag |-> "None"]
PhotoStr(spells, data_uri, decoded) ==
    [ tag |-> "str", spells |-> spells, data_uri |-> data_uri, decoded |-> decoded,
      empty |-> FALSE ]
EmptyString ==
    [ tag |-> "str", spells |-> UnknownFile, data_uri |-> FALSE, decoded |-> 0,
      empty |-> TRUE ]
PhotoBytes(n) == [tag |-> "bytes", size |-> n]
\* an uploaded multipart file (FileStorage); size -1 when reading it fails
FileStorage(n) == [tag |-> "FileStorage", size |-> n]

PhotoTruthy(p) ==
    CASE p.tag = "None" -> FALSE
      [] p.tag = "str" -> ~p.empty
      [] p.tag = "bytes" -> p.size > 0
      [] p.tag = "FileStorage" -> TRUE

_read_file_storage(file_storage) ==
    IF file_storage.tag # "FileStorage" THEN NoPhoto
    ELSE IF file_storage.size < 0 THEN NoPhoto
    ELSE PhotoBytes(file_storage.size)

\* lines 670-691: the photo parameter after multipart normalisation
NormalizePhoto(photo, request_file) ==
    IF PhotoTruthy(photo)
    THEN IF photo.tag = "FileStorage" THEN _read_file_storage(photo) ELSE photo
    ELSE IF request_file.tag = "FileStorage" THEN _read_file_storage(request_file)
    ELSE photo

UploadResult(err, file, fls) == [err |-> err, file |-> file, files |-> fls]

\* bytes reach save_file: size checks, then a new File attached to the check-in
SaveBytes(fls, size, checkin_id, photo_type) ==
    IF size = 0
    THEN UploadResult(Raise("ValidationError", "photo file is empty"), NoFile, fls)
    ELSE IF size > MaxPhotoBytes
    THEN UploadResult(Raise("ValidationError", "photo exceeds 5MB"), NoFile, fls)
    ELSE LET name == NextFileName(checkin_id, photo_type)
         IN  UploadResult(NoExc, name,
                 fls \cup {[name |-> name, attached_to_name |-> checkin_id,
                            file_name |-> photo_type]})

_handle_photo_upload(fls, photo_data, checkin_id, photo_type) ==
    IF ~PhotoTruthy(photo_data) THEN UploadResult(NoExc, NoFile, fls)
    ELSE IF photo_data.tag = "str" /\ ~photo_data.data_uri
            /\ FileExists(fls, photo_data.spells)
    THEN UploadResult(NoExc, photo_data.spells, fls)
    ELSE IF photo_data.tag = "str"
    THEN IF photo_data.decoded <= 0
         THEN UploadResult(Raise("ValidationError", "invalid image format"), NoFile, fls)
         ELSE SaveBytes(fls, photo_data.decoded, checkin_id, photo_type)
    ELSE SaveBytes(fls, photo_data.size, checkin_id, photo_type)

\* lines 886-891: link an uploaded File to the check-in
AttachFile(fls, id, checkin_id) ==
    { IF f.name = id THEN [f EXCEPT !.attached_to_name = checkin_id] ELSE f : f \in fls }

----------------------------------------------------------------------------
(* Exceptions and the endpoint's except clauses *)

\* direct base class of each exception class
ExcBase ==
    [ c \in {"ValidationError", "DoesNotExistError", "CheckinRadiusExceededError",
             "InactiveEmployeeStatusError", "ValueError", "Exception"} |->
        CASE c = "ValidationError" -> "Exception"
          [] c = "DoesNotExistError" -> "ValidationError"
          [] c = "CheckinRadiusExceededError" -> "ValidationError"
          [] c = "InactiveEmployeeStatusError" -> "ValidationError"
          [] c = "ValueError" -> "Exception"
          [] c = "Exception" -> "Exception" ]

\* isinstance: c is cls or derives from it (the hierarchy is two levels deep)
IsInstance(c, cls) == c = cls \/ ExcBase[c] = cls \/ ExcBase[ExcBase[c]] = cls

\* an except clause that matches the three listed classes but no subclass
IsValidationType_Exact(c) ==
    c \in {"ValidationError", "DoesNotExistError", "CheckinRadiusExceededError"}

\* line 950: except (ValidationError, DoesNotExistError, CheckinRadiusExceededError)
IsValidationType(c) ==
    \E cls \in {"ValidationError", "DoesNotExistError", "CheckinRadiusExceededError"} :
        IsInstance(c, cls)

----------------------------------------------------------------------------
(* Check-in / check-out recorder *)

NoEmployee == ""        \* employee_id not supplied (None or '')

\* timestamp parameter: absent, a naive datetime, a timezone-aware datetime
\* (local time and UTC offset, in slots) or text get_datetime cannot parse
NoTimestamp == [tag |-> "None"]
Naive(t) == [tag |-> "naive", t |-> t]
Aware(t, off) == [tag |-> "aware", t |-> t, off |-> off]
BadTimestamp == [tag |-> "bad"]

\* hrms validate_active_employee
validate_active_employee(db, employee) ==
    IF db.Employee[employee].status = "Active" THEN NoExc
    ELSE Raise("InactiveEmployeeStatusError", "inactive employee")

\* lines 794-809: the naive UTC datetime of the record
ParseTimestamp(timestamp, clock) ==
    CASE timestamp.tag = "None" -> [err |-> NoExc, time |-> clock]
      [] timestamp.tag = "naive" -> [err |-> NoExc, time |-> timestamp.t]
      [] timestamp.tag = "aware" -> [err |-> NoExc, time |-> timestamp.t - timestamp.off]
      [] timestamp.tag = "bad" ->
             [err |-> Raise("ValidationError", "invalid timestamp"), time |-> 0]

\* checkin_time.replace(hour=0, minute=0, second=0, microsecond=0)
StartOfDay(t) == (t \div SlotsPerDay) * SlotsPerDay
EndOfDay(t) == StartOfDay(t) + SlotsPerDay
DayOf(t) == t \div SlotsPerDay

\* the filter "time": ["between", [lo, hi]]
Between(t, lo, hi) == lo <= t /\ t <= hi

\* the records matched by the filters of lines 818-825 and 834-841
DayRecords(recs, employee, log_type, checkin_time) ==
    { r \in recs : /\ r.employee = employee
                   /\ r.log_type = log_type
                   /\ Between(r.time, StartOfDay(checkin_time), EndOfDay(checkin_time)) }

\* DuplicateCheck without the existing_count test of lines 834-849
DuplicateCheck_NoCount(recs, employee, log_type, checkin_time) ==
    IF log_type = "OUT" /\ DayRecords(recs, employee, "IN", checkin_time) = {}
    THEN Raise("ValidationError", "must check-in first")
    ELSE NoExc

\* lines 816-849: must-check-in-first and one-per-day checks
DuplicateCheck(recs, employee, log_type, checkin_time) ==
    IF log_type = "OUT" /\ DayRecords(recs, employee, "IN", checkin_time) = {}
    THEN Raise("ValidationError", "must check-in first")
    ELSE IF Cardinality(DayRecords(recs, employee, log_type, checkin_time)) > 0
    THEN Raise("ValidationError", "already completed")
    ELSE NoExc

\* LocationStage that consults the check-out flag for IN as well
LocationStage_FlagOnly(settings, log_type, latitude, longitude) ==
    IF settings.flags.require_location_check_on_check_out
    THEN IF ~Truthy(latitude) \/ ~Truthy(longitude)
         THEN LocationResult(Raise("ValidationError", "location is required"), -1)
         ELSE _validate_location(latitude, longitude, settings.branch_latitude,
                  settings.branch_longitude, settings.branch_radius, log_type)
    ELSE LocationResult(NoExc, -1)

\* lines 740-768: geofence, always for IN, for OUT when the settings ask for it
LocationStage(settings, log_type, latitude, longitude) ==
    IF log_type = "IN" \/ settings.flags.require_location_check_on_check_out
    THEN IF ~Truthy(latitude) \/ ~Truthy(longitude)
         THEN LocationResult(Raise("ValidationError", "location is required"), -1)
         ELSE _validate_location(latitude, longitude, settings.branch_latitude,
                  settings.branch_longitude, settings.branch_radius, log_type)
    ELSE LocationResult(NoExc, -1)

\* RequiredPhoto without the presence test of lines 775-777 and 784-788
RequiredPhoto_NoPresence(required, photo, photo_id, fls, what) ==
    IF ~required THEN [early |-> "", err |-> NoExc]
    ELSE IF photo_id # NoFile /\ ~FileExists(fls, photo_id)
    THEN [early |-> "", err |-> Raise("ValidationError", what \o " file not found")]
    ELSE [early |-> "", err |-> NoExc]

\* lines 770-792: required photos.  early = the dict returned without raising
RequiredPhoto(required, photo, photo_id, fls, what) ==
    IF ~required THEN [early |-> "", err |-> NoExc]
    ELSE IF ~PhotoTruthy(photo) /\ photo_id = NoFile
    THEN [early |-> what \o " is required", err |-> NoExc]
    ELSE IF photo_id # NoFile /\ ~FileExists(fls, photo_id)
    THEN [early |-> "", err |-> Raise("ValidationError", what \o " file not found")]
    ELSE [early |-> "", err |-> NoExc]

\* lines 866-879: checkin_doc.insert().  The document name is new, so the
\* storage layer's unique key never collides (no DuplicateEntryError); the
\* Employee Checkin controller refuses a log of the same employee, log type
\* and timestamp, which line 879 re-raises as a ValidationError.
InsertError(recs, employee, log_type, checkin_time) ==
    IF \E r \in recs : /\ r.employee = employee /\ r.log_type = log_type
                        /\ r.time = checkin_time
    THEN Raise("ValidationError", "error creating check-in record")
    ELSE NoExc

\* "float(v) if v else None" of lines 857-858
StoredCoordinate(v) == IF Truthy(v) THEN Num(Float(v)) ELSE None
CanStoreCoordinate(v) == ~Truthy(v) \/ CanFloat(v)

\* the name the new Employee Checkin document gets: unique among the stored
\* documents
NextCheckinName(recs, employee, log_type, checkin_time) ==
    <<employee, log_type, checkin_time,
      Cardinality({r \in recs : /\ r.employee = employee /\ r.log_type = log_type
                                /\ r.time = checkin_time})>>

\* lines 882-902 for one photo: upload the payload or link the uploaded File
PhotoStage(fls, photo, photo_id, checkin_id, photo_type) ==
    IF PhotoTruthy(photo)
    THEN _handle_photo_upload(fls, photo, checkin_id, photo_type)
    ELSE IF photo_id # NoFile /\ FileExists(fls, photo_id)
    THEN UploadResult(NoExc, photo_id, AttachFile(fls, photo_id, checkin_id))
    ELSE UploadResult(NoExc, NoFile, fls)

\* Backfill that writes the file_url to every stored record
Backfill_EveryRecord(recs, checkin_id, location_photo_file, client_biometric_photo_file) ==
    { [r EXCEPT !.custom_location_photo =
                    IF location_photo_file # NoFile
                    THEN FileUrl(location_photo_file) ELSE @,
                !.custom_client_bio_metric_photo =
                    IF client_biometric_photo_file # NoFile
                    THEN FileUrl(client_biometric_photo_file) ELSE @] : r \in recs }

\* lines 904-910: the file_url of each photo is written to the new record (the
\* custom photo fields are installed on the Employee Checkin doctype)
Backfill(recs, checkin_id, location_photo_file, client_biometric_photo_file) ==
    { IF r.name = checkin_id
      THEN [r EXCEPT !.custom_location_photo =
                         IF location_photo_file # NoFile
                         THEN FileUrl(location_photo_file) ELSE @,
                     !.custom_client_bio_metric_photo =
                         IF client_biometric_photo_file # NoFile
                         THEN FileUrl(client_biometric_photo_file) ELSE @]
      ELSE r : r \in recs }

\* What the try block of create_checkin_checkout does: the exception it raises
\* (err), the failure dict it returns without raising (early), the stored
\* documents when it ends, and the fields of the success response.
Outcome(err, early, recs, fls, checkin, distance, locfile, biofile) ==
    [ err |-> err, early |-> early, records |-> recs, files |-> fls,
      checkin_id |-> checkin, distance |-> distance,
      location_photo_id |-> locfile, client_biometric_photo_id |-> biofile ]

Failed(err, recs, fls) == Outcome(err, "", recs, fls, NoCheckin, -1, NoFile, NoFile)

\* lines 851-947, reached when every check before record creation has passed
CreateAndAttach(recs, fls, employee, inp, location_photo, client_biometric_photo, checkin_time, distance) ==
    IF ~CanStoreCoordinate(inp.latitude) \/ ~CanStoreCoordinate(inp.longitude)
    THEN Failed(Raise("ValueError", "could not convert string to float"), recs, fls)
    ELSE IF InsertError(recs, employee, inp.log_type, checkin_time).exc # "None"
    THEN Failed(InsertError(recs, employee, inp.log_type, checkin_time), recs, fls)
    ELSE
      LET name == NextCheckinName(recs, employee, inp.log_type, checkin_time)
          checkin_doc == [ name |-> name, employee |-> employee,
                           log_type |-> inp.log_type, time |-> checkin_time,
                           latitude |-> StoredCoordinate(inp.latitude),
                           longitude |-> StoredCoordinate(inp.longitude),
                           custom_location_photo |-> NoFile,
                           custom_client_bio_metric_photo |-> NoFile ]
          inserted == recs \cup {checkin_doc}
          loc == PhotoStage(fls, location_photo, inp.location_photo_id, name, "location")
      IN  IF loc.err.exc # "None" THEN Failed(loc.err, inserted, loc.files)
          ELSE
            LET bio == PhotoStage(loc.files, client_biometric_photo,
                                  inp.client_biometric_photo_id, name, "biometric")
            IN  IF bio.err.exc # "None" THEN Failed(bio.err, inserted, bio.files)
                ELSE Outcome(NoExc, "", Backfill(inserted, name, loc.file, bio.file),
                             bio.files, name, distance, loc.file, bio.file)

\* What lines 642-849 hand to record creation: pass = every check has passed,
\* out = the outcome of the call when one has not
Checked(pass, out, employee, checkin_time, distance, location_photo, client_biometric_photo) ==
    [ pass |-> pass, out |-> out, employee |-> employee, checkin_time |-> checkin_time,
      distance |-> distance, location_photo |-> location_photo,
      client_biometric_photo |-> client_biometric_photo ]

Rejected(out) == Checked(FALSE, out, "", 0, -1, NoPhoto, NoPhoto)

\* lines 642-849: everything the try block does before it creates the record
PreInsert(recs, fls, clock, inp) ==
    LET location_photo == NormalizePhoto(inp.location_photo, inp.request_files[1])
        client_biometric_photo ==
            NormalizePhoto(inp.client_biometric_photo, inp.request_files[2])
        emp == ResolveEmployee(SiteDB, inp.employee_id, inp.session_user)
    IN  IF emp.err.exc # "None" THEN Rejected(Failed(emp.err, recs, fls))
        ELSE IF validate_active_employee(SiteDB, emp.name).exc # "None"
        THEN Rejected(Failed(validate_active_employee(SiteDB, emp.name), recs, fls))
        ELSE IF inp.log_type \notin {"IN", "OUT"}
        THEN Rejected(Failed(Raise("ValidationError", "invalid log_type"), recs, fls))
        ELSE
          LET settings == _get_employee_settings(SiteDB, SiteDB.Employee[emp.name])
          IN  IF settings.err.exc # "None" THEN Rejected(Failed(settings.err, recs, fls))
              ELSE
                LET geo == LocationStage(settings, inp.log_type,
                                         inp.latitude, inp.longitude)
                    locreq == RequiredPhoto(
                                  settings.flags.required_to_upload_location_photo,
                                  location_photo, inp.location_photo_id, fls,
                                  "location photo")
                    bioreq == RequiredPhoto(
                                  settings.flags.required_to_upload_client_bio_metric_photo,
                                  client_biometric_photo, inp.client_biometric_photo_id,
                                  fls, "client biometric photo")
                    ts == ParseTimestamp(inp.timestamp, clock)
                    dup == DuplicateCheck(recs, emp.name, inp.log_type, ts.time)
                IN  IF geo.err.exc # "None" THEN Rejected(Failed(geo.err, recs, fls))
                    ELSE IF locreq.early # ""
                    THEN Rejected(Outcome(NoExc, locreq.early, recs, fls, NoCheckin, -1,
                                          NoFile, NoFile))
                    ELSE IF locreq.err.exc # "None"
                    THEN Rejected(Failed(locreq.err, recs, fls))
                    ELSE IF bioreq.early # ""
                    THEN Rejected(Outcome(NoExc, bioreq.early, recs, fls, NoCheckin, -1,
                                          NoFile, NoFile))
                    ELSE IF bioreq.err.exc # "None"
                    THEN Rejected(Failed(bioreq.err, recs, fls))
                    ELSE IF ts.err.exc # "None" THEN Rejected(Failed(ts.err, recs, fls))
                    ELSE IF dup.exc # "None" THEN Rejected(Failed(dup, recs, fls))
                    ELSE Checked(TRUE, Failed(NoExc, {}, {}), emp.name, ts.time,
                                 geo.distance, location_photo, client_biometric_photo)

\* TryBlock with the one-per-day check moved before the geofence
TryBlock_DuplicateFirst(recs, fls, clock, inp) ==
    LET pre == PreInsert(recs, fls, clock, inp)
        emp == ResolveEmployee(SiteDB, inp.employee_id, inp.session_user)
        ts == ParseTimestamp(inp.timestamp, clock)
        dup == DuplicateCheck(recs, emp.name, inp.log_type, ts.time)
    IN  IF /\ emp.err = NoExc
           /\ validate_active_employee(SiteDB, emp.name) = NoExc
           /\ inp.log_type \in {"IN", "OUT"}
           /\ _get_employee_settings(SiteDB, SiteDB.Employee[emp.name]).err = NoExc
           /\ ts.err = NoExc
           /\ dup # NoExc
        THEN Failed(dup, recs, fls)
        ELSE IF ~pre.pass THEN pre.out
        ELSE CreateAndAttach(recs, fls, pre.employee, inp, pre.location_photo,
                             pre.client_biometric_photo, pre.checkin_time, pre.distance)

\* lines 642-947: the try block
TryBlock(recs, fls, clock, inp) ==
    LET pre == PreInsert(recs, fls, clock, inp)
    IN  IF ~pre.pass THEN pre.out
        ELSE CreateAndAttach(recs, fls, pre.employee, inp, pre.location_photo,
                             pre.client_biometric_photo, pre.checkin_time, pre.distance)

\* lines 949-962: the except clauses.  escaped = the exception leaves the call
HandleException(err) ==
    IF err.exc = "None"
    THEN [http_status_code |-> 200, exception |-> "", escaped |-> FALSE]
    ELSE IF IsValidationType(err.exc)
    THEN [http_status_code |-> 401, exception |-> err.msg, escaped |-> FALSE]
    ELSE IF IsInstance(err.exc, "Exception")
    THEN [http_status_code |-> 500, exception |-> "something went wrong",
          escaped |-> FALSE]
    ELSE [http_status_code |-> 200, exception |-> "", escaped |-> TRUE]

\* the call as its caller sees it
CallResult(inp, out) ==
    LET h == HandleException(out.err)
    IN  [ op |-> "create_checkin_checkout", inp |-> inp, raised |-> out.err.exc,
          escaped |-> h.escaped,
          http_status_code |-> h.http_status_code,
          exception |-> IF out.early # "" THEN out.early ELSE h.exception,
          status |-> IF out.err.exc = "None" /\ out.early = "" THEN "success" ELSE "",
          checkin_id |-> out.checkin_id,
          distance |-> out.distance,
          location_photo_id |-> out.location_photo_id,
          location_photo_url |-> FileUrl(out.location_photo_id),
          client_biometric_photo_id |-> out.client_biometric_photo_id,
          client_biometric_photo_url |-> FileUrl(out.client_biometric_photo_id) ]

----------------------------------------------------------------------------
(* get_employee_checkin_records *)

\* int(v) succeeds, and its value
CanInt(v) == v.tag = "num" \/ (v.tag = "str" /\ v.str \in DOMAIN FloatOfStr)
IntOf(v) == IF v.tag = "num" THEN v.num ELSE FloatOfStr[v.str]

\* lines 1063-1072
LimitOf(limit) ==
    IF limit = None THEN 100
    ELSE IF ~CanInt(limit) THEN 100
    ELSE IF IntOf(limit) < 1 THEN 100
    ELSE IntOf(limit)

\* lines 1074-1080
OffsetOf(offset) ==
    IF ~CanInt(offset) THEN 0
    ELSE IF IntOf(offset) < 0 THEN 0
    ELSE IntOf(offset)

\* lines 1026-1061: a date that is given cannot be parsed
DateError(start_date, end_date) ==
    IF start_date.tag = "bad" \/ end_date.tag = "bad"
    THEN Raise("ValidationError", "invalid date format")
    ELSE NoExc

\* lines 1026-1061: the "time" filter; timedelta(days=1) is SlotsPerDay slots
MatchesTime(t, start_date, end_date) ==
    LET start_datetime == ParseTimestamp(start_date, 0).time
        end_datetime == ParseTimestamp(end_date, 0).time + SlotsPerDay
    IN  CASE start_date.tag # "None" /\ end_date.tag # "None" ->
                 Between(t, start_datetime, end_datetime)
          [] start_date.tag # "None" /\ end_date.tag = "None" -> t >= start_datetime
          [] start_date.tag = "None" /\ end_date.tag # "None" -> t < end_datetime
          [] OTHER -> TRUE

\* lines 1015-1061: the records the filters select
FilteredRecords(recs, employee, log_type, start_date, end_date) ==
    { r \in recs : /\ r.employee = employee
                   /\ log_type = "" \/ r.log_type = log_type
                   /\ MatchesTime(r.time, start_date, end_date) }

\* order_by="time desc": every order of S with non-increasing time
SortedByTimeDesc(S) ==
    { q \in [1 .. Cardinality(S) -> S] :
        \A i, j \in 1 .. Cardinality(S) :
            i < j => ( q[i] # q[j] /\ q[i].time >= q[j].time ) }

\* limit=limit, start=offset
Page(q, offset, limit) ==
    [ i \in 1 .. ( IF Len(q) - offset < 0 THEN 0
                   ELSE IF Len(q) - offset < limit THEN Len(q) - offset
                   ELSE limit ) |-> q[offset + i] ]

\* has_more counting a full last page as more
HasMore_Inclusive(offset, limit, total_count) == (offset + limit) <= total_count

\* line 1192
HasMore(offset, limit, total_count) == (offset + limit) < total_count

\* lines 1114-1144 and 1164-1182 for one photo: the most recent File attached
\* to the record whose file_name holds the photo type, else the File the
\* record's custom field names.  The File saved for the record itself is more
\* recent than any File that was re-attached to it.
PhotoOfRecord(fls, rec, photo_type, custom_value) ==
    LET attached == { f \in fls : f.attached_to_name = rec.name
                                  /\ f.file_name = photo_type }
        own == NextFileName(rec.name, photo_type)
    IN  IF attached # {}
        THEN IF \E f \in attached : f.name = own THEN own
             ELSE (CHOOSE f \in attached : TRUE).name
        ELSE IF custom_value # NoFile /\ FileExists(fls, custom_value) THEN custom_value
        ELSE NoFile

\* lines 1147-1184: one entry of "records"
RecordData(fls, rec) ==
    LET location_photo == PhotoOfRecord(fls, rec, "location", rec.custom_location_photo)
        biometric_photo ==
            PhotoOfRecord(fls, rec, "biometric", rec.custom_client_bio_metric_photo)
    IN  [ checkin_id |-> rec.name, log_type |-> rec.log_type, time |-> rec.time,
          location_photo_id |-> location_photo,
          location_photo_url |-> FileUrl(location_photo),
          client_biometric_photo_id |-> biometric_photo,
          client_biometric_photo_url |-> FileUrl(biometric_photo) ]

RecordsResult(inp, err, recs, total_count, limit, offset, has_more) ==
    [ op |-> "get_employee_checkin_records", inp |-> inp, raised |-> err.exc,
      exception |-> err.msg, records |-> recs, total_count |-> total_count,
      limit |-> limit, offset |-> offset, has_more |-> has_more ]

RecordsError(inp, err) == RecordsResult(inp, err, <<>>, 0, 0, 0, FALSE)

----------------------------------------------------------------------------
(* mobile_login *)

NoHash == 0             \* api_key / api_secret not set, token None

\* the User documents that can log in, with their passwords
Passwords == [u \in {"alice", "bob"} |-> IF u = "alice" THEN "pw-a" ELSE "pw-b"]

\* credentials stored before the first call: bob already has a key pair
InitUsers ==
    [u \in DOMAIN Passwords |->
        IF u = "bob" THEN [api_key |-> -1, api_secret |-> -2]
        ELSE [api_key |-> NoHash, api_secret |-> NoHash]]

\* str.lower() on the strings the model submits
Lower(s) ==
    CASE s \in {"true", "TRUE", "True"} -> "true"
      [] s \in {"yes", "YES", "Yes"} -> "yes"
      [] s \in {"false", "FALSE"} -> "false"
      [] s \in {"no", "NO"} -> "no"
      [] OTHER -> s

\* the conversion of lines 50-54 without .lower()
ExistingTokenFlag_CaseSensitive(has_existing_token) ==
    IF has_existing_token.tag = "str"
    THEN has_existing_token.str \in {"true", "1", "yes"}
    ELSE Truthy(has_existing_token)

\* lines 50-54: has_existing_token as a boolean
ExistingTokenFlag(has_existing_token) ==
    IF has_existing_token.tag = "str"
    THEN Lower(has_existing_token.str) \in {"true", "1", "yes"}
    ELSE Truthy(has_existing_token)

\* an authentication that accepts every password of a known user
Authenticate_AnyPassword(usr, pwd) ==
    IF usr \in DOMAIN Passwords THEN usr ELSE ""

\* LoginManager.authenticate: the user it logs in, "" when it refuses
Authenticate(usr, pwd) ==
    IF usr \in DOMAIN Passwords /\ Passwords[usr] = pwd THEN usr ELSE ""

LoginResult(inp, err, token, generated) ==
    [ op |-> "mobile_login", inp |-> inp, raised |-> err.exc, exception |-> err.msg,
      token |-> token, generated |-> generated ]

NoToken == <<NoHash, NoHash>>

\* the credentials of lines 103-112 with the stored secret kept when there is one
GenerateCredentials_KeepSecret(user_doc, n) ==
    [ api_secret |-> IF user_doc.api_secret = NoHash THEN n + 1 ELSE user_doc.api_secret,
      api_key |-> IF user_doc.api_key = NoHash THEN n + 2 ELSE user_doc.api_key,
      used |-> IF user_doc.api_key = NoHash THEN 2 ELSE 1 ]

\* lines 103-112: the credentials the call stores; frappe.generate_hash hands
\* out hash n + 1, then n + 2, when n hashes have been handed out before
GenerateCredentials(user_doc, n) ==
    [ api_secret |-> n + 1,
      api_key |-> IF user_doc.api_key = NoHash THEN n + 2 ELSE user_doc.api_key,
      used |-> IF user_doc.api_key = NoHash THEN 2 ELSE 1 ]

mobile_login(usr, pwd, has_existing_token) ==
    LET inp == [usr |-> usr, pwd |-> pwd, has_existing_token |-> has_existing_token]
        user == Authenticate(usr, pwd)
        generated == GenerateCredentials(users[user], hashes)
        api_secret == generated.api_secret
        api_key == generated.api_key
        used == generated.used
    IN  /\ last = [op |-> "none"]
        /\ IF usr = ""
           THEN /\ last' = LoginResult(inp, Raise("ValidationError", "username is required"),
                                       NoToken, FALSE)
                /\ UNCHANGED <<users, hashes>>
           ELSE IF pwd = ""
           THEN /\ last' = LoginResult(inp, Raise("ValidationError", "password is required"),
                                       NoToken, FALSE)
                /\ UNCHANGED <<users, hashes>>
           ELSE IF user = ""
           THEN /\ last' = LoginResult(inp, Raise("ValidationError", "login failed"),
                                       NoToken, FALSE)
                /\ UNCHANGED <<users, hashes>>
           ELSE IF ExistingTokenFlag(has_existing_token)
           THEN /\ last' = LoginResult(inp, NoExc, NoToken, FALSE)
                /\ UNCHANGED <<users, hashes>>
           ELSE /\ hashes + used <= MaxHashes
                /\ users' = [users EXCEPT ![user] =
                                [api_key |-> api_key, api_secret |-> api_secret]]
                /\ hashes' = hashes + used
                /\ last' = LoginResult(inp, NoExc, <<api_key, api_secret>>, TRUE)
        /\ UNCHANGED <<records, files, now, pending>>

LoginNames == {"", "alice", "bob", "mallory"}
LoginPasswords == {"", "pw-a", "pw-b"}
TokenFlags ==
    { Bool(TRUE), Bool(FALSE), None, Num(0), Num(1) }
    \cup { Str(s) : s \in {"true", "TRUE", "True", "1", "yes", "YES", "Yes",
                            "false", "FALSE", "no", "0", "", "on"} }

----------------------------------------------------------------------------
(* Inputs of create_checkin_checkout *)

\* who calls: an explicit employee_id, or the employee of the session user
Callers ==
    { <<e, "u-a">> :
        e \in {"EMP-A", "EMP-B", "EMP-W", "EMP-X", "EMP-Y", "EMP-Z", "EMP-0"} }
    \cup { <<NoEmployee, u>> : u \in {"u-a", "u-none", "u-stray"} }

LogTypes == {"IN", "OUT", "BREAK"}

\* <<latitude, longitude>>: absent, latitude 0 at the branch, within the
\* radius, outside it, out of range, not a number
Coordinates ==
    { <<None, None>>, <<Num(0), Num(1)>>, <<Num(1), Num(1)>>, <<Num(5), Num(1)>>,
      <<Num(91), Num(1)>>, <<Str("abc"), Num(1)>> }

Timestamps ==
    {NoTimestamp, BadTimestamp, Aware(MaxTime, 1)} \cup {Naive(t) : t \in Times}

GoodBase64 == PhotoStr(UnknownFile, FALSE, 1000)
BadBase64 == PhotoStr(UnknownFile, FALSE, -1)
FileIdString == PhotoStr(UploadedFile, FALSE, -1)
NoRequestFiles == <<NoPhoto, NoPhoto>>

\* <<location_photo, location_photo_id, client_biometric_photo,
\*   client_biometric_photo_id, request_files>>
Photos ==
    { <<NoPhoto, NoFile, NoPhoto, NoFile, NoRequestFiles>>,
      <<GoodBase64, NoFile, NoPhoto, NoFile, NoRequestFiles>>,
      <<BadBase64, NoFile, NoPhoto, NoFile, NoRequestFiles>>,
      <<NoPhoto, UploadedFile, NoPhoto, NoFile, NoRequestFiles>>,
      <<NoPhoto, UnknownFile, NoPhoto, NoFile, NoRequestFiles>>,
      <<GoodBase64, NoFile, GoodBase64, NoFile, NoRequestFiles>>,
      <<GoodBase64, NoFile, BadBase64, NoFile, NoRequestFiles>>,
      <<FileIdString, NoFile, NoPhoto, UploadedFile, NoRequestFiles>>,
      <<FileIdString, NoFile, NoPhoto, NoFile, NoRequestFiles>>,
      <<NoPhoto, NoFile, NoPhoto, NoFile,
        <<FileStorage(1000), FileStorage(MaxPhotoBytes + 1)>> >> }

BothPhotos == <<GoodBase64, NoFile, GoodBase64, NoFile, NoRequestFiles>>
NoPhotos == <<NoPhoto, NoFile, NoPhoto, NoFile, NoRequestFiles>>
Near == <<Num(1), Num(1)>>
Far == <<Num(5), Num(1)>>

Input(c, lt, xy, ts, ph) ==
    [ employee_id |-> c[1], session_user |-> c[2], log_type |-> lt,
      latitude |-> xy[1], longitude |-> xy[2], timestamp |-> ts,
      location_photo |-> ph[1], location_photo_id |-> ph[2],
      client_biometric_photo |-> ph[3], client_biometric_photo_id |-> ph[4],
      request_files |-> ph[5] ]

InputSet(cs, lts, xys, tss, phs) ==
    { Input(c, lt, xy, ts, ph) :
        c \in cs, lt \in lts, xy \in xys, ts \in tss, ph \in phs }

Workers == { <<e, "u-a">> : e \in {"EMP-A", "EMP-B"} }

\* every caller, log type and coordinate form
Inputs ==
    InputSet(Callers, LogTypes, Coordinates, {Naive(0), BadTimestamp},
             {BothPhotos, NoPhotos})

\* every timestamp, for the employees that can check in
DayInputs ==
    InputSet(Workers, {"IN", "OUT"}, {Near}, Timestamps, {BothPhotos})

\* calls stamped by the server clock
ClockInputs ==
    InputSet(Workers, {"IN", "OUT"}, {Near}, {NoTimestamp}, {BothPhotos})

\* the File saved for the location photo of EMP-A's first IN
FirstLocationFile == NextFileName(NextCheckinName({}, "EMP-A", "IN", 0), "location")

\* calls of one employee at the first two midnights: without photos, with a
\* base64 location photo, and with the file id of an earlier location photo
ListInputs ==
    InputSet({<<"EMP-A", "u-a">>}, {"IN", "OUT"}, {Near},
             {Naive(0), Naive(SlotsPerDay)},
             { NoPhotos,
               <<GoodBase64, NoFile, NoPhoto, NoFile, NoRequestFiles>>,
               <<NoPhoto, FirstLocationFile, NoPhoto, NoFile, NoRequestFiles>> })

\* inputs of get_employee_checkin_records; log_type "" = not supplied
RecordQueries ==
    { [ employee_id |-> "EMP-A", session_user |-> "u-a", log_type |-> lt,
        start_date |-> d[1], end_date |-> d[2], limit |-> l, offset |-> o ] :
        lt \in {"", "IN", "BREAK"},
        d \in { <<NoTimestamp, NoTimestamp>>, <<Naive(0), Naive(0)>>,
                <<Naive(SlotsPerDay), NoTimestamp>>, <<NoTimestamp, Naive(0)>>,
                <<BadTimestamp, NoTimestamp>> },
        l \in { None, Num(0), Num(1), Num(2), Str("abc") },
        o \in { None, Num(0), Num(1), Num(3), Num(-1) } }

\* every photo form, for the employees that can check in
PhotoInputs ==
    InputSet(Workers, {"IN", "OUT"}, {Near, Far}, {Naive(0)}, Photos)

----------------------------------------------------------------------------
(* Actions *)

NoCall == [op |-> "none"]

\* the request workers that can serve two calls at the same time
Procs == {1, 2}
NoPending == [p \in Procs |-> NoCall]

InitFiles ==
    {[name |-> UploadedFile, attached_to_name |-> NoCheckin, file_name |-> "upload"]}

Init ==
    /\ records = {}
    /\ files = InitFiles
    /\ users = InitUsers
    /\ hashes = 0
    /\ now = 0
    /\ pending = NoPending
    /\ last = NoCall

\* one call of the endpoint; calls do not overlap
create_checkin_checkout(inp) ==
    LET out == TryBlock(records, files, now, inp)
    IN  /\ last = NoCall
        /\ Cardinality(out.records) <= MaxRecords
        /\ records' = out.records
        /\ files' = out.files
        /\ last' = CallResult(inp, out)
        /\ UNCHANGED <<users, hashes, now, pending>>

\* the response has been delivered; the next request may arrive
Return ==
    /\ last # NoCall
    /\ last' = NoCall
    /\ UNCHANGED <<records, files, users, hashes, now, pending>>

\* the server clock advances
Tick ==
    /\ last = NoCall
    /\ now < MaxTime
    /\ now' = now + 1
    /\ UNCHANGED <<records, files, users, hashes, pending, last>>

\* one call of the configuration endpoint on the site's documents
Configuration ==
    \E c \in Callers :
        LET out == get_employee_configuration(SiteDB, c[1], c[2])
        IN  /\ last = NoCall
            /\ last' = [ op |-> "get_employee_configuration",
                         inp |-> [employee_id |-> c[1], session_user |-> c[2]],
                         raised |-> out.err.exc, exception |-> out.err.msg,
                         flags |-> out.flags, settings_source |-> out.settings_source ]
            /\ UNCHANGED <<records, files, users, hashes, now, pending>>

\* one call of the records endpoint
get_employee_checkin_records(inp) ==
    LET emp == ResolveEmployee(SiteDB, inp.employee_id, inp.session_user)
        dates == DateError(inp.start_date, inp.end_date)
        limit == LimitOf(inp.limit)
        offset == OffsetOf(inp.offset)
        matching == FilteredRecords(records, emp.name, inp.log_type,
                                    inp.start_date, inp.end_date)
        total_count == Cardinality(matching)
    IN  /\ last = NoCall
        /\ IF emp.err.exc # "None" THEN last' = RecordsError(inp, emp.err)
           ELSE IF inp.log_type # "" /\ inp.log_type \notin {"IN", "OUT"}
           THEN last' = RecordsError(inp, Raise("ValidationError", "invalid log_type"))
           ELSE IF dates.exc # "None" THEN last' = RecordsError(inp, dates)
           ELSE \E q \in SortedByTimeDesc(matching) :
                    last' = RecordsResult(inp, NoExc,
                                [ i \in DOMAIN Page(q, offset, limit) |->
                                    RecordData(files, Page(q, offset, limit)[i]) ],
                                total_count, limit, offset,
                                HasMore(offset, limit, total_count))
        /\ UNCHANGED <<records, files, users, hashes, now, pending>>

Checkin == \E inp \in Inputs : create_checkin_checkout(inp)
CheckinDay == \E inp \in DayInputs : create_checkin_checkout(inp)
CheckinClock == \E inp \in ClockInputs : create_checkin_checkout(inp)
CheckinPhoto == \E inp \in PhotoInputs : create_checkin_checkout(inp)

Login ==
    \E usr \in LoginNames, pwd \in LoginPasswords, flag \in TokenFlags :
        mobile_login(usr, pwd, flag)

Next ==
    \/ Checkin
    \/ Configuration
    \/ Return

NextDay ==
    \/ CheckinDay
    \/ Return

NextClock ==
    \/ CheckinClock
    \/ Return
    \/ Tick

NextPhoto ==
    \/ CheckinPhoto
    \/ Return

CheckinList == \E inp \in ListInputs : create_checkin_checkout(inp)
GetRecords == \E inp \in RecordQueries : get_employee_checkin_records(inp)

NextRecords ==
    \/ CheckinList
    \/ GetRecords
    \/ Return

Spec == Init /\ [][Next]_vars
SpecDay == Init /\ [][NextDay]_vars
SpecClock == Init /\ [][NextClock]_vars
SpecPhoto == Init /\ [][NextPhoto]_vars
SpecRecords == Init /\ [][NextRecords]_vars

NextLogin ==
    \/ Login
    \/ Return

SpecLogin == Init /\ [][NextLogin]_vars

----------------------------------------------------------------------------
(* Two overlapping calls of create_checkin_checkout *)

\* calls of the working employees stamped on the first calendar day
RaceInputs ==
    InputSet(Workers, {"IN", "OUT"}, {Near}, {Naive(0), Naive(1)}, {BothPhotos})

\* lines 642-849 of a call served by worker p: a call that fails a check
\* returns; one that passes them all is about to create its record
BeginCall(p, inp) ==
    LET pre == PreInsert(records, files, now, inp)
    IN  /\ last = NoCall
        /\ pending[p] = NoCall
        /\ IF pre.pass
           THEN /\ pending' = [pending EXCEPT ![p] = [op |-> "checked", inp |-> inp,
                                                       pre |-> pre]]
                /\ UNCHANGED last
           ELSE /\ last' = CallResult(inp, pre.out)
                /\ UNCHANGED pending
        /\ UNCHANGED <<records, files, users, hashes, now>>

\* lines 851-962 of the call worker p is in the middle of
FinishCall(p) ==
    /\ last = NoCall
    /\ pending[p] # NoCall
    /\ LET inp == pending[p].inp
           pre == pending[p].pre
           out == CreateAndAttach(records, files, pre.employee, inp, pre.location_photo,
                      pre.client_biometric_photo, pre.checkin_time, pre.distance)
       IN  /\ Cardinality(out.records) <= MaxRecords
           /\ records' = out.records
           /\ files' = out.files
           /\ last' = CallResult(inp, out)
    /\ pending' = [pending EXCEPT ![p] = NoCall]
    /\ UNCHANGED <<users, hashes, now>>

Begin == \E p \in Procs, inp \in RaceInputs : BeginCall(p, inp)
Finish == \E p \in Procs : FinishCall(p)

NextRace ==
    \/ Begin
    \/ Finish
    \/ Return

SpecRace == Init /\ [][NextRace]_vars

----------------------------------------------------------------------------
(* The settings resolver as a function of the documents it reads *)

Absent == [tag |-> "absent"]    \* the field is not installed on the doctype

\* a document with the fields of flds whose value is not Absent
DocOf(flds, value) == [f \in {g \in flds : value[g] # Absent} |-> value[f]]

RuleFieldNames ==
    << "custom_required_to_upload_location_photo",
       "custom_required_to_upload_client_bio_metric_photo",
       "custom_required_location_check_on_check_out" >>

\* <<location photo, biometric photo, check-out location check>> of a document
FlagTriples ==
    { <<Absent, Absent, Absent>>, <<None, None, None>>, <<Num(1), Absent, None>>,
      <<Num(0), Num(1), Num(0)>>, <<Num(1), Num(1), Num(1)>> }

\* <<custom_latitude, custom_longitude, custom_radius_in_meters>> of the branch
BranchTriples ==
    { <<Num(0), Num(1), Num(7)>>, <<None, Num(1), Num(7)>>, <<Num(0), Absent, Num(7)>>,
      <<Num(0), Num(1), None>>, <<Num(0), Num(0), Num(0)>> }

CompanyFlags == { Num(1), Num(0), None, Absent }

RuleDoc(t, extra) ==
    DocOf({RuleFieldNames[i] : i \in 1..3} \cup DOMAIN extra,
          [f \in {RuleFieldNames[i] : i \in 1..3} \cup DOMAIN extra |->
              IF f \in DOMAIN extra THEN extra[f]
              ELSE t[CHOOSE i \in 1..3 : RuleFieldNames[i] = f]])

\* the documents of a site with one employee, described by the call c
SettingsDB(c) ==
    [ Company |-> [ x \in {"C"} |->
          DocOf({"custom_attendnace_validations_based_on_department"},
                [f \in {"custom_attendnace_validations_based_on_department"} |-> c.flag]) ],
      Department |-> [ x \in {"D"} |-> RuleDoc(c.dept, [custom_project |-> c.project]) ],
      Project |-> [ x \in {"P"} |-> RuleDoc(c.proj, <<>>) ],
      Branch |-> [ x \in {"B"} |->
          DocOf({"custom_latitude", "custom_longitude", "custom_radius_in_meters"},
                [ custom_latitude |-> c.loc[1], custom_longitude |-> c.loc[2],
                  custom_radius_in_meters |-> c.loc[3] ]) ],
      Employee |-> [ x \in {"EMP"} |->
          [ name |-> x, status |-> "Active", company |-> Str("C"),
            department |-> c.department, branch |-> c.branch,
            company_email |-> c.company_email ] ],
      User |-> [ x \in {"u"} |-> [email |-> "e@x"] ] ]

\* the employee is found through the session user's email
SettingsCalls ==
    { [ op |-> "call", employee_id |-> "", company_email |-> "e@x", flag |-> fl,
        department |-> d, dept |-> dt, project |-> pr,
        proj |-> pt, branch |-> b, loc |-> l ] :
        fl \in CompanyFlags, d \in {None, Str("D")}, dt \in FlagTriples,
        pr \in {None, Str("P")}, pt \in FlagTriples, b \in {None, Str("B")},
        l \in BranchTriples }

\* the employee is named by the caller, with or without a company email
ResolverCalls ==
    { [ op |-> "call", employee_id |-> "EMP", company_email |-> m, flag |-> fl,
        department |-> d, dept |-> dt, project |-> pr,
        proj |-> pt, branch |-> b, loc |-> l ] :
        m \in {"e@x", ""},
        fl \in CompanyFlags, d \in {None, Str("D")}, dt \in FlagTriples,
        pr \in {None, Str("P")}, pt \in FlagTriples, b \in {None, Str("B")},
        l \in BranchTriples }

InitSettings ==
    /\ records = {}
    /\ files = InitFiles
    /\ users = InitUsers
    /\ hashes = 0
    /\ now = 0
    /\ pending = NoPending
    /\ last \in SettingsCalls

\* both resolvers applied to the same documents
ResolveSettings ==
    /\ last.op = "call"
    /\ last' = [ op |-> "settings", args |-> last,
                 config |-> get_employee_configuration(SettingsDB(last),
                                last.employee_id, "u"),
                 settings |-> _get_employee_settings(SettingsDB(last),
                                  SettingsDB(last).Employee["EMP"]) ]
    /\ UNCHANGED <<records, files, users, hashes, now, pending>>

NextSettings == ResolveSettings

SpecSettings == InitSettings /\ [][NextSettings]_vars

InitResolvers ==
    /\ records = {}
    /\ files = InitFiles
    /\ users = InitUsers
    /\ hashes = 0
    /\ now = 0
    /\ pending = NoPending
    /\ last \in ResolverCalls

SpecResolvers == InitResolvers /\ [][NextSettings]_vars

----------------------------------------------------------------------------
(* _handle_photo_upload as a function of its arguments *)

PhotoSizes == {0, 1, MaxPhotoBytes - 1, MaxPhotoBytes, MaxPhotoBytes + 1}

UploadPhotos ==
    {NoPhoto, EmptyString}
    \cup { PhotoBytes(n) : n \in PhotoSizes }
    \cup { PhotoStr(sp, du, n) : sp \in {UnknownFile, UploadedFile}, du \in BOOLEAN,
                                 n \in PhotoSizes \cup {-1} }

UploadCalls ==
    { [ op |-> "call", photo_data |-> ph, checkin_id |-> c, photo_type |-> pt ] :
        ph \in UploadPhotos,
        c \in { <<"EMP-A", "IN", 0, 0>>, <<"EMP-B", "OUT", 1, 0>> },
        pt \in {"location", "biometric"} }

InitUpload ==
    /\ records = {}
    /\ files = InitFiles
    /\ users = InitUsers
    /\ hashes = 0
    /\ now = 0
    /\ pending = NoPending
    /\ last \in UploadCalls

HandlePhotoUpload ==
    /\ last.op = "call"
    /\ LET result == _handle_photo_upload(files, last.photo_data, last.checkin_id,
                                          last.photo_type)
       IN  /\ last' = [ op |-> "_handle_photo_upload", args |-> last,
                        err |-> result.err, file |-> result.file ]
           /\ files' = result.files
    /\ UNCHANGED <<records, users, hashes, now, pending>>

NextUpload == HandlePhotoUpload

SpecUpload == InitUpload /\ [][NextUpload]_vars

----------------------------------------------------------------------------
(* _validate_location as a function of its arguments *)

GeoLatitudes ==
    { None, Num(-91), Num(-90), Num(0), Num(1), Num(2), Num(90), Num(91),
      Str("0"), Str("1"), Str("abc"), Str("") }
GeoLongitudes ==
    { None, Num(-181), Num(-180), Num(0), Num(1), Num(180), Num(181), Str("abc") }
GeoBranches == { <<0, 0>>, <<0, 1>>, <<1, 1>> }
GeoRadii == { 0, 3, 6 }

GeoCalls ==
    { [ op |-> "call", latitude |-> la, longitude |-> lo, branch_latitude |-> b[1],
        branch_longitude |-> b[2], branch_radius |-> r, log_type |-> lt ] :
        la \in GeoLatitudes, lo \in GeoLongitudes, b \in GeoBranches,
        r \in GeoRadii, lt \in {"IN", "OUT"} }

InitGeo ==
    /\ records = {}
    /\ files = InitFiles
    /\ users = InitUsers
    /\ hashes = 0
    /\ now = 0
    /\ pending = NoPending
    /\ last \in GeoCalls

ValidateLocation ==
    /\ last.op = "call"
    /\ last' = [ op |-> "_validate_location", args |-> last,
                 result |-> _validate_location(last.latitude, last.longitude,
                                last.branch_latitude, last.branch_longitude,
                                last.branch_radius, last.log_type) ]
    /\ UNCHANGED <<records, files, users, hashes, now, pending>>

NextGeo == ValidateLocation

SpecGeo == InitGeo /\ [][NextGeo]_vars

----------------------------------------------------------------------------
(* Properties *)

\* a step that is one create_checkin_checkout call
CallStep == last = NoCall /\ last'.op = "create_checkin_checkout"

\* the employee and the record time of a call that got that far
CallEmployee(inp) == ResolveEmployee(SiteDB, inp.employee_id, inp.session_user).name
CallTime(inp, clock) == ParseTimestamp(inp.timestamp, clock).time
CallSettings(inp) == _get_employee_settings(SiteDB, SiteDB.Employee[CallEmployee(inp)])

\* the call reaches the geofence stage with resolved settings
SettingsResolved(inp) ==
    /\ ResolveEmployee(SiteDB, inp.employee_id, inp.session_user).err = NoExc
    /\ validate_active_employee(SiteDB, CallEmployee(inp)) = NoExc
    /\ inp.log_type \in {"IN", "OUT"}
    /\ CallSettings(inp).err = NoExc

\* records of an employee on the calendar day of t
OnDay(recs, employee, log_type, t) ==
    { r \in recs : r.employee = employee /\ r.log_type = log_type
                   /\ DayOf(r.time) = DayOf(t) }

\* C1: after any sequence of non-overlapping create_checkin_checkout calls the
\* stored records hold, per employee and calendar day, at most one IN record
\* and at most one OUT record.
C1_OnePerDay ==
    \A r1 \in records, r2 \in records :
        ( r1.employee = r2.employee /\ r1.log_type = r2.log_type
          /\ DayOf(r1.time) = DayOf(r2.time) ) => r1 = r2

\* a second IN was just refused for a day that holds an IN and an OUT
C1_Witness ==
    /\ last.op = "create_checkin_checkout"
    /\ last.inp.log_type = "IN"
    /\ last.exception = "already completed"
    /\ \E r1 \in records, r2 \in records :
          /\ r1.employee = CallEmployee(last.inp) /\ r2.employee = r1.employee
          /\ r1.log_type = "IN" /\ r2.log_type = "OUT"
          /\ DayOf(r1.time) = DayOf(r2.time)
          /\ DayOf(r1.time) = DayOf(CallTime(last.inp, now))

\* C2: for an employee and a calendar day, with every other validation
\* passing: IN without an IN that day succeeds, IN with one fails "already
\* completed", OUT without an IN fails "must check-in first", OUT after the IN
\* succeeds, OUT after an OUT fails "already completed".
C2_DayTransitions ==
    [][ ( CallStep /\ last'.exception \in {"", "must check-in first", "already completed"} )
        => LET inp == last'.inp
               e == CallEmployee(inp)
               t == CallTime(inp, now)
               hadIN == OnDay(records, e, "IN", t) # {}
               hadOUT == OnDay(records, e, "OUT", t) # {}
           IN  CASE inp.log_type = "IN" /\ ~hadIN -> last'.status = "success"
                 [] inp.log_type = "IN" /\ hadIN -> last'.exception = "already completed"
                 [] inp.log_type = "OUT" /\ ~hadIN ->
                        last'.exception = "must check-in first"
                 [] inp.log_type = "OUT" /\ hadIN /\ ~hadOUT -> last'.status = "success"
                 [] inp.log_type = "OUT" /\ hadIN /\ hadOUT ->
                        last'.exception = "already completed"
      ]_vars

\* C3: every stored OUT record has an IN record of the same employee on the
\* same calendar day whose timestamp is not later than the OUT's.
C3_OutHasPriorIn ==
    \A r \in records :
        r.log_type = "OUT" =>
            \E q \in records :
                /\ q.employee = r.employee /\ q.log_type = "IN"
                /\ DayOf(q.time) = DayOf(r.time)
                /\ q.time <= r.time

CoordinateErrors ==
    { "location is required", "coordinates required", "invalid coordinates",
      "invalid latitude", "invalid longitude", "radius exceeded" }
PhotoErrors ==
    { "location photo is required", "client biometric photo is required",
      "location photo file not found", "client biometric photo file not found",
      "invalid image format", "photo file is empty", "photo exceeds 5MB" }

\* C4: a call that returns a failure response because coordinate validation or
\* photo validation failed has created no check-in record.
C4_FailureCreatesNothing ==
    [][ ( CallStep /\ last'.exception \in CoordinateErrors \cup PhotoErrors )
        => records' = records ]_vars

\* the coordinates lie in range and within the configured radius of the
\* employee's branch
WithinBranchRadius(employee, latitude, longitude) ==
    LET branch_doc == SiteDB.Branch[SiteDB.Employee[employee].branch.str]
    IN  /\ latitude.tag = "num" /\ longitude.tag = "num"
        /\ -90 <= latitude.num /\ latitude.num <= 90
        /\ -180 <= longitude.num /\ longitude.num <= 180
        /\ get_distance_between_coordinates(
               branch_doc.custom_latitude.num, branch_doc.custom_longitude.num,
               latitude.num, longitude.num)
             <= branch_doc.custom_radius_in_meters.num

\* C5: every stored IN record carries coordinates that were supplied, lie in
\* range and are within the configured radius of the employee's branch.
C5_GeofenceOnIn ==
    \A r \in records :
        r.log_type = "IN" => WithinBranchRadius(r.employee, r.latitude, r.longitude)

\* an IN outside the radius was just refused while an IN record is stored
C5_Witness ==
    /\ last.op = "create_checkin_checkout"
    /\ last.inp.log_type = "IN"
    /\ last.raised = "CheckinRadiusExceededError"
    /\ \E r \in records : r.log_type = "IN"

\* C6: for OUT with resolved settings: when the check-out location check is
\* required a record is created only if the coordinates pass the geofence;
\* when it is not required, an OUT from CHECKED_IN succeeds whatever the
\* submitted coordinates are.
C6_OutGeofence ==
    [][ ( CallStep /\ last'.inp.log_type = "OUT" /\ SettingsResolved(last'.inp) )
        => LET inp == last'.inp
               settings == CallSettings(inp)
               e == CallEmployee(inp)
               t == CallTime(inp, now)
           IN  IF settings.flags.require_location_check_on_check_out
               THEN records' # records =>
                        _validate_location(inp.latitude, inp.longitude,
                            settings.branch_latitude, settings.branch_longitude,
                            settings.branch_radius, "OUT").err = NoExc
               ELSE ( /\ inp.timestamp.tag # "bad"
                      /\ OnDay(records, e, "IN", t) # {}
                      /\ OnDay(records, e, "OUT", t) = {} )
                    => ( records' # records /\ last'.status = "success" )
      ]_vars

\* C7: for every submitted pair in range and every branch position and radius,
\* _validate_location returns the distance when distance <= radius and fails
\* with the radius-exceeded error carrying the distance when distance > radius.
C7_ValidateLocation ==
    ( /\ last.op = "_validate_location"
      /\ CanFloat(last.args.latitude) /\ CanFloat(last.args.longitude)
      /\ -90 <= Float(last.args.latitude) /\ Float(last.args.latitude) <= 90
      /\ -180 <= Float(last.args.longitude) /\ Float(last.args.longitude) <= 180 )
    => LET a == last.args
           d == get_distance_between_coordinates(a.branch_latitude,
                    a.branch_longitude, Float(a.latitude), Float(a.longitude))
       IN  IF d <= a.branch_radius
           THEN last.result = LocationResult(NoExc, d)
           ELSE /\ last.result.err.exc = "CheckinRadiusExceededError"
                /\ last.result.distance = d

ValidationClasses ==
    { "ValidationError", "DoesNotExistError", "CheckinRadiusExceededError",
      "InactiveEmployeeStatusError" }

\* C8: no exception leaves create_checkin_checkout: a validation-type error
\* gives {"exception": message} with status 401, any other exception a
\* generic message with status 500.
C8_NoEscape ==
    last.op = "create_checkin_checkout" =>
        /\ ~last.escaped
        /\ last.raised \in ValidationClasses =>
              ( /\ last.http_status_code = 401
                /\ last.exception # "" /\ last.exception # "something went wrong" )
        /\ ( last.raised # "None" /\ last.raised \notin ValidationClasses ) =>
              ( last.http_status_code = 500 /\ last.exception = "something went wrong" )

\* the call of an inactive employee was answered with status 401
C8_Witness ==
    /\ last.op = "create_checkin_checkout"
    /\ last.raised = "InactiveEmployeeStatusError"
    /\ last.http_status_code = 401
    /\ last.exception = "inactive employee"

\* the call supplies neither the photo nor its file id
PhotoMissing(inp, which) ==
    /\ ~PhotoTruthy(NormalizePhoto(inp[which], inp.request_files[
                        IF which = "location_photo" THEN 1 ELSE 2]))
    /\ inp[which \o "_id"] = NoFile

\* C9: when the resolved settings require a photo and the call supplies
\* neither the photo nor its file id, the call returns a failure response
\* without raising and creates no check-in record.
C9_RequiredPhotoMissing ==
    [][ ( /\ CallStep
          /\ SettingsResolved(last'.inp)
          /\ \/ /\ CallSettings(last'.inp).flags.required_to_upload_location_photo
                /\ PhotoMissing(last'.inp, "location_photo")
             \/ /\ CallSettings(last'.inp).flags.required_to_upload_client_bio_metric_photo
                /\ PhotoMissing(last'.inp, "client_biometric_photo") )
        => ( last'.exception # "" /\ ~last'.escaped /\ records' = records )
      ]_vars

\* a call within the radius and without the required location photo was
\* answered with the returned failure dict
C9_Witness ==
    /\ last.op = "create_checkin_checkout"
    /\ last.exception = "location photo is required"
    /\ last.raised = "None"
    /\ PhotoMissing(last.inp, "location_photo")

\* has_existing_token is boolean true or one of 'true', '1', 'yes' in some
\* letter case
SaysExistingToken(v) ==
    \/ v = Bool(TRUE)
    \/ v.tag = "str" /\ v.str \in {"true", "TRUE", "True", "1", "yes", "YES", "Yes"}

\* C10: mobile_login with has_existing_token true changes no stored api_key or
\* api_secret, and its response carries token None and generated False.
C10_ExistingTokenKeepsCredentials ==
    [][ ( /\ last = NoCall /\ last'.op = "mobile_login"
          /\ SaysExistingToken(last'.inp.has_existing_token) )
        => ( /\ users' = users
             /\ last'.token = NoToken
             /\ last'.generated = FALSE )
      ]_vars

\* a successful login that said 'YES' got no token
C10_Witness ==
    /\ last.op = "mobile_login"
    /\ last.raised = "None"
    /\ last.inp.has_existing_token = Str("YES")
    /\ last.generated = FALSE
    /\ last.token = NoToken

\* has_existing_token is false, absent, or text that says so
SaysNoExistingToken(v) ==
    \/ v \in {Bool(FALSE), None, Num(0)}
    \/ v.tag = "str" /\ v.str \in {"false", "FALSE", "no", "0", ""}

\* C11: a successful mobile_login with has_existing_token false returns a
\* generated token api_key:api_secret equal to the credentials stored for the
\* user after the call; its secret is a hash never handed out or stored
\* before (so every earlier token stops matching), and its api_key is the
\* stored one when the user had one and a new hash otherwise.
C11_LoginIssuesFreshToken ==
    [][ ( /\ last = NoCall /\ last'.op = "mobile_login"
          /\ last'.raised = "None"
          /\ SaysNoExistingToken(last'.inp.has_existing_token) )
        => LET u == last'.inp.usr
               key == last'.token[1]
               secret == last'.token[2]
           IN  /\ last'.generated
               /\ last'.token = <<users'[u].api_key, users'[u].api_secret>>
               /\ secret # NoHash
               /\ secret \notin 1 .. hashes
               /\ \A v \in DOMAIN users : users[v].api_secret # secret
               /\ IF users[u].api_key # NoHash
                  THEN key = users[u].api_key
                  ELSE /\ key # NoHash /\ key # secret /\ key \notin 1 .. hashes
                       /\ \A v \in DOMAIN users : users[v].api_key # key
               /\ \A v \in DOMAIN users \ {u} : users'[v] = users[v]
      ]_vars

\* bob, whose stored key pair had been replaced once already, was issued
\* another token on his old api_key
C11_Witness ==
    /\ last.op = "mobile_login"
    /\ last.inp.usr = "bob"
    /\ last.inp.has_existing_token = Str("no")
    /\ last.generated
    /\ last.token = <<-1, users["bob"].api_secret>>
    /\ hashes >= 2

\* a step in which a worker finishes the call it had checked
FinishStep(p) == pending[p] # NoCall /\ pending'[p] = NoCall

\* C12: when two calls of the same log type, employee and calendar day
\* overlap (both pass the existing-record checks before either inserts), the
\* call that inserts second, finding the other's record of that day stored,
\* persists nothing and is answered with a validation failure of status 401.
C12_RaceKeepsOnePerDay ==
    [][ \A p \in Procs :
          ( /\ FinishStep(p)
            /\ OnDay(records, pending[p].pre.employee, pending[p].inp.log_type,
                     pending[p].pre.checkin_time) # {} )
          => ( records' = records /\ last'.http_status_code = 401 )
      ]_vars

\* the flags a document with the rule values t stands for
ExpectedFlags(t) ==
    [ required_to_upload_location_photo |-> t[1] = Num(1),
      required_to_upload_client_bio_metric_photo |-> t[2] = Num(1),
      require_location_check_on_check_out |-> t[3] = Num(1) ]

\* C13: the rule flags both resolvers return are those of the employee's
\* department when the company flag is true and those of the project linked
\* to the department when it is false or unset, whatever the other source
\* holds; both fail when the employee has no department and, in project mode,
\* when the department has no linked project.
C13_OneSettingsSource ==
    last.op = "settings" =>
        LET a == last.args
            departmentMode == a.flag = Num(1)
            source == IF departmentMode THEN a.dept ELSE a.proj
        IN  /\ ( a.department = None \/ (~departmentMode /\ a.project = None) )
                  => ( /\ last.settings.err.exc = "ValidationError"
                       /\ last.config.err.exc = "ValidationError" )
            /\ last.settings.err = NoExc => last.settings.flags = ExpectedFlags(source)
            /\ last.config.err = NoExc =>
                  /\ last.config.flags = ExpectedFlags(source)
                  /\ last.config.settings_source =
                         IF departmentMode THEN "department" ELSE "project"

\* with the company flag unset, both resolvers returned the project's flags
\* although the department sets all three
C13_Witness ==
    /\ last.op = "settings"
    /\ last.args.flag = None
    /\ last.args.dept = <<Num(1), Num(1), Num(1)>>
    /\ last.args.proj = <<Num(0), Num(1), Num(0)>>
    /\ last.settings.err = NoExc /\ last.config.err = NoExc
    /\ last.settings.flags = ExpectedFlags(last.args.proj)
    /\ last.config.flags = ExpectedFlags(last.args.proj)

\* C14: in department mode, get_employee_configuration fails with a
\* validation error when none of the three rule fields is defined on the
\* employee's department; when at least one is defined it does not fail for
\* that reason, and every flag that is missing or None is reported false.
C14_DepartmentFlagsDefault ==
    ( last.op = "settings" /\ last.args.flag = Num(1) /\ last.args.department # None )
    => LET a == last.args
           noneDefined == \A i \in 1..3 : a.dept[i] = Absent
           otherwiseComplete ==
               a.branch # None /\ \A i \in 1..3 : a.loc[i] \notin {None, Absent}
       IN  /\ noneDefined => last.config.err.exc = "ValidationError"
           /\ ~noneDefined =>
                 /\ last.config.err.msg # "department has no settings"
                 /\ otherwiseComplete => last.config.err = NoExc
                 /\ last.config.err = NoExc =>
                       /\ a.dept[1] \in {Absent, None} =>
                             ~last.config.flags.required_to_upload_location_photo
                       /\ a.dept[2] \in {Absent, None} =>
                             ~last.config.flags.required_to_upload_client_bio_metric_photo
                       /\ a.dept[3] \in {Absent, None} =>
                             ~last.config.flags.require_location_check_on_check_out

\* a department that defines the location photo flag only: the configuration
\* was returned, with the two other flags false
C14_Witness ==
    /\ last.op = "settings"
    /\ last.args.flag = Num(1)
    /\ last.args.dept = <<Num(1), Absent, None>>
    /\ last.config.err = NoExc
    /\ last.config.flags = [ required_to_upload_location_photo |-> TRUE,
                             required_to_upload_client_bio_metric_photo |-> FALSE,
                             require_location_check_on_check_out |-> FALSE ]

\* the employee has no branch, or the branch lacks latitude, longitude or radius
BranchIncomplete(employee) ==
    LET branch == SiteDB.Employee[employee].branch
    IN  \/ branch = None
        \/ \E f \in {"custom_latitude", "custom_longitude", "custom_radius_in_meters"} :
              GetAttr(SiteDB.Branch[branch.str], f, None) = None

\* the call names an active employee and a valid log type
ReachesSettings(inp) ==
    /\ ResolveEmployee(SiteDB, inp.employee_id, inp.session_user).err = NoExc
    /\ validate_active_employee(SiteDB, CallEmployee(inp)) = NoExc
    /\ inp.log_type \in {"IN", "OUT"}

\* C15: for an employee without a branch, or whose branch lacks latitude,
\* longitude or radius, both resolvers fail with a validation error, and
\* create_checkin_checkout answers 401 and creates no record, IN or OUT; no
\* stored record belongs to such an employee.
C15_NoRecordWithoutBranchLocation ==
    [][ /\ ( /\ CallStep /\ ReachesSettings(last'.inp)
             /\ BranchIncomplete(CallEmployee(last'.inp)) )
           => ( /\ records' = records
                /\ last'.raised = "ValidationError"
                /\ last'.http_status_code = 401 )
        /\ ( /\ last = NoCall /\ last'.op = "get_employee_configuration"
             /\ ResolveEmployee(SiteDB, last'.inp.employee_id,
                                last'.inp.session_user).err = NoExc
             /\ BranchIncomplete(CallEmployee(last'.inp)) )
           => last'.raised = "ValidationError"
        /\ \A r \in records' : ~BranchIncomplete(r.employee)
      ]_vars

\* an OUT of the employee whose branch has no radius was refused while
\* another employee's record is stored
C15_Witness ==
    /\ last.op = "create_checkin_checkout"
    /\ last.inp.employee_id = "EMP-Y"
    /\ last.inp.log_type = "OUT"
    /\ last.exception = "branch has no location"
    /\ last.http_status_code = 401
    /\ records # {}

\* the records whose photo fields carry the file_url of the File named id
ReferringRecords(recs, id) ==
    { r \in recs : FileUrl(id) \in {r.custom_location_photo,
                                      r.custom_client_bio_metric_photo} }

\* C16: every photo asset a successful create_checkin_checkout response
\* reports is attached to the check-in record that call created, and no photo
\* asset is referred to by more than one check-in record.
C16_PhotoLinkedToItsCheckin ==
    [][ ( CallStep /\ last'.status = "success" )
        => /\ \A id \in {last'.location_photo_id, last'.client_biometric_photo_id}
                          \ {NoFile} :
                 \E f \in files' : f.name = id /\ f.attached_to_name = last'.checkin_id
           /\ \A f \in files' : Cardinality(ReferringRecords(records', f.name)) <= 1
      ]_vars

\* the size of a photo payload: the bytes, or what the text decodes to
PayloadSize(photo) ==
    CASE photo.tag = "bytes" -> photo.size
      [] photo.tag = "str" -> IF photo.empty THEN 0 ELSE photo.decoded

\* inline bytes, or decodable text that is not the name of an uploaded File
IsPayload(photo) ==
    /\ photo.tag \in {"bytes", "str"}
    /\ PayloadSize(photo) >= 0
    /\ ~ ( photo.tag = "str" /\ ~photo.data_uri /\ FileExists(InitFiles, photo.spells) )

\* C18: photo intake stores a photo asset only for a payload of 1 to
\* 5*1024*1024 bytes; a payload of zero bytes or of more than 5MB is rejected
\* with a validation error and stores nothing; a payload of exactly
\* 5*1024*1024 bytes is stored.
C18_PhotoSizeBounds ==
    ( last.op = "_handle_photo_upload" /\ IsPayload(last.args.photo_data) )
    => LET size == PayloadSize(last.args.photo_data)
           stored == files # InitFiles
       IN  /\ stored => ( 1 <= size /\ size <= MaxPhotoBytes )
           /\ ( size = 0 \/ size > MaxPhotoBytes )
                 => ( last.err.exc = "ValidationError" /\ ~stored )
           /\ size = MaxPhotoBytes => ( stored /\ last.err = NoExc )

\* C17: a successful create_checkin_checkout with a base64 location photo
\* under 5MB reports the location_photo_url of the File it saved, and every
\* later get_employee_checkin_records page that holds that check-in returns
\* the same location_photo_url and location_photo_id for it.
C17_LocationPhotoRoundTrip ==
    [][ /\ ( /\ CallStep /\ last'.status = "success"
             /\ last'.inp.location_photo = GoodBase64 )
           => ( /\ last'.location_photo_id = NextFileName(last'.checkin_id, "location")
                /\ last'.location_photo_url = FileUrl(last'.location_photo_id)
                /\ FileExists(files', last'.location_photo_id) )
        /\ ( /\ last = NoCall /\ last'.op = "get_employee_checkin_records"
             /\ last'.raised = "None" )
           => \A i \in DOMAIN last'.records :
                 LET saved == NextFileName(last'.records[i].checkin_id, "location")
                 IN  FileExists(files, saved)
                     => ( /\ last'.records[i].location_photo_id = saved
                          /\ last'.records[i].location_photo_url = FileUrl(saved) )
      ]_vars

\* C19: the day window is half-open: a call is refused "already completed"
\* only when a record of the same employee and log type lies on the calendar
\* day of its timestamp, and an OUT passes the check-in-first test only when
\* an IN of the employee lies on that calendar day.
C19_DayWindowHalfOpen ==
    [][ CallStep
        => LET inp == last'.inp
               e == CallEmployee(inp)
               t == CallTime(inp, now)
           IN  /\ last'.exception = "already completed"
                     => OnDay(records, e, inp.log_type, t) # {}
               /\ ( inp.log_type = "OUT"
                    /\ ( last'.status = "success"
                         \/ last'.exception = "already completed" ) )
                     => OnDay(records, e, "IN", t) # {}
      ]_vars

\* limit and offset as the endpoint is to read them
ExpectedLimit(v) ==
    IF v.tag = "num" /\ v.num >= 1 THEN v.num
    ELSE IF v.tag = "str" /\ v.str \in {"1", "5"} THEN FloatOfStr[v.str]
    ELSE 100
ExpectedOffset(v) ==
    IF v.tag = "num" /\ v.num >= 0 THEN v.num
    ELSE IF v.tag = "str" /\ v.str \in {"0", "1", "5"} THEN FloatOfStr[v.str]
    ELSE 0

\* C20: get_employee_checkin_records returns at most limit records (100 when
\* limit is absent, non-numeric or < 1; offset 0 when negative or
\* non-numeric), all of them different records selected by the filters;
\* total_count is the number of the employee's records the filters select,
\* and has_more holds exactly when offset + number of returned records <
\* total_count.
C20_Pagination ==
    ( last.op = "get_employee_checkin_records" /\ last.raised = "None" )
    => LET inp == last.inp
           matching == FilteredRecords(records, CallEmployee(inp), inp.log_type,
                                       inp.start_date, inp.end_date)
           returned == { last.records[i].checkin_id : i \in DOMAIN last.records }
       IN  /\ last.limit = ExpectedLimit(inp.limit)
           /\ last.offset = ExpectedOffset(inp.offset)
           /\ Len(last.records) <= last.limit
           /\ Cardinality(returned) = Len(last.records)
           /\ returned \subseteq { r.name : r \in matching }
           /\ last.total_count = Cardinality(matching)
           /\ last.has_more <=> ( last.offset + Len(last.records) < last.total_count )

\* the last page of two records, one per page, was returned without has_more
C20_Witness ==
    /\ last.op = "get_employee_checkin_records"
    /\ last.raised = "None"
    /\ last.inp.limit = Num(1) /\ last.inp.offset = Num(1)
    /\ last.total_count = 2
    /\ Len(last.records) = 1
    /\ ~last.has_more

\* C21: a successful create_checkin_checkout call adds exactly one new record
\* and leaves every stored record unchanged; no step ever changes or removes a
\* stored record, and the new record holds the call's employee, log type, time
\* and coordinates, its photo fields being written by that call only.
C21_CreateAddsOneRecord ==
    [][ /\ records \subseteq records'
        /\ ( CallStep /\ last'.status = "success" )
           => LET inp == last'.inp
                  created == records' \ records
              IN  /\ Cardinality(created) = 1
                  /\ \A r \in created :
                        /\ r.name = last'.checkin_id
                        /\ r.name \notin { q.name : q \in records }
                        /\ r.employee = CallEmployee(inp)
                        /\ r.log_type = inp.log_type
                        /\ r.time = CallTime(inp, now)
                        /\ r.latitude = StoredCoordinate(inp.latitude)
                        /\ r.longitude = StoredCoordinate(inp.longitude)
                        /\ r.custom_location_photo = last'.location_photo_url
                        /\ r.custom_client_bio_metric_photo
                             = last'.client_biometric_photo_url
      ]_vars

\* a call with both photos has just succeeded while a record of another
\* employee, with photos of its own, is stored
C21_Witness ==
    /\ last.op = "create_checkin_checkout"
    /\ last.status = "success"
    /\ last.location_photo_url # NoFile
    /\ \E r \in records, q \in records :
          /\ r.name = last.checkin_id
          /\ r.custom_location_photo = last.location_photo_url
          /\ q.employee # r.employee
          /\ q.custom_location_photo \notin {NoFile, r.custom_location_photo}

\* C22: for every configuration of employee, company, department, project and
\* branch, _get_employee_settings succeeds exactly when
\* get_employee_configuration does, and on success both yield the same three
\* rule flags and the same branch latitude, longitude and radius.
C22_ResolversAgree ==
    last.op = "settings" =>
        /\ last.settings.err = NoExc <=> last.config.err = NoExc
        /\ ( last.settings.err = NoExc /\ last.config.err = NoExc ) =>
              /\ last.settings.flags = last.config.flags
              /\ Num(last.settings.branch_latitude) = last.config.branch.latitude
              /\ Num(last.settings.branch_longitude) = last.config.branch.longitude
              /\ Num(last.settings.branch_radius)
                   = last.config.branch.checkin_radius_meters

\* the call's employee is resolved and active and its log type is IN or OUT
ReachesResolver(inp) ==
    /\ ResolveEmployee(SiteDB, inp.employee_id, inp.session_user).err = NoExc
    /\ validate_active_employee(SiteDB, CallEmployee(inp)) = NoExc
    /\ inp.log_type \in {"IN", "OUT"}

\* the geofence applies to the call and refuses it
GeofenceFails(inp) ==
    /\ SettingsResolved(inp)
    /\ \/ inp.log_type = "IN"
       \/ CallSettings(inp).flags.require_location_check_on_check_out
    /\ \/ ~Truthy(inp.latitude) \/ ~Truthy(inp.longitude)
       \/ _validate_location(inp.latitude, inp.longitude,
              CallSettings(inp).branch_latitude, CallSettings(inp).branch_longitude,
              CallSettings(inp).branch_radius, inp.log_type).err # NoExc

DuplicateErrors == {"must check-in first", "already completed"}

\* C23: create_checkin_checkout resolves the employee, then the settings, then
\* validates the geofence (when applicable), then checks for duplicates, then
\* creates the record, then takes in the photos; a failing step ends the call
\* with its own error whatever a later step would have found, a duplicate is
\* reported only by a call the geofence has let through, and photos are taken
\* in only by a call that has created its record.
C23_StepOrder ==
    [][ CallStep =>
          LET inp == last'.inp
              emp == ResolveEmployee(SiteDB, inp.employee_id, inp.session_user)
          IN  /\ emp.err # NoExc =>
                    ( last'.raised = emp.err.exc /\ last'.exception = emp.err.msg )
              /\ ( ReachesResolver(inp) /\ CallSettings(inp).err # NoExc ) =>
                    last'.exception = CallSettings(inp).err.msg
              /\ GeofenceFails(inp) =>
                    /\ last'.exception \in CoordinateErrors
                    /\ last'.exception \notin DuplicateErrors
              /\ last'.exception \in DuplicateErrors =>
                    ( SettingsResolved(inp) /\ ~GeofenceFails(inp) )
              /\ ( emp.err # NoExc \/ ~SettingsResolved(inp) \/ GeofenceFails(inp)
                   \/ last'.exception \in DuplicateErrors ) =>
                    ( records' = records /\ files' = files )
              /\ files' # files =>
                    \E r \in records' \ records :
                        \A f \in files' \ files : f.attached_to_name = r.name
              /\ last'.status = "success" =>
                    /\ SettingsResolved(inp) /\ ~GeofenceFails(inp)
                    /\ DuplicateCheck(records, CallEmployee(inp), inp.log_type,
                                      CallTime(inp, now)) = NoExc
                    /\ records' # records
      ]_vars

\* an IN outside the radius, on a day on which the employee has an IN, was
\* just refused as radius-exceeded
C23_Witness ==
    /\ last.op = "create_checkin_checkout"
    /\ last.inp.log_type = "IN"
    /\ last.raised = "CheckinRadiusExceededError"
    /\ last.exception = "radius exceeded"
    /\ DuplicateCheck(records, CallEmployee(last.inp), "IN", CallTime(last.inp, now))
         = Raise("ValidationError", "already completed")

\* an OUT of an employee whose department links no project, on a day without
\* an IN, was just refused with the settings error
C23_SettingsBeforeDuplicate ==
    /\ last.op = "create_checkin_checkout"
    /\ last.inp.log_type = "OUT"
    /\ last.inp.employee_id = "EMP-W"
    /\ last.exception = "no project"
    /\ OnDay(records, "EMP-W", "IN", CallTime(last.inp, now)) = {}

\* C24: every failure response of create_checkin_checkout (a return value
\* carrying the key 'exception', the required-photo-missing responses
\* included) comes with HTTP status 401 or 500, never with the default
\* success status.
C24_FailureStatus ==
    ( last.op = "create_checkin_checkout" /\ last.exception # "" )
    => last.http_status_code \in {401, 500}

\* a File attached to the record is its photo of the given type: it was saved
\* as such for the record, or the record's photo field holds its file_url
HasPhotoAttached(fls, rec, photo_type) ==
    \E f \in fls :
        /\ f.attached_to_name = rec.name
        /\ \/ f.file_name = photo_type
           \/ FileUrl(f.name) = IF photo_type = "location"
                                THEN rec.custom_location_photo
                                ELSE rec.custom_client_bio_metric_photo

\* the rule flags resolved for the employee of a stored record (the site's
\* documents do not change, so they are those of creation time)
RecordFlags(rec) == _get_employee_settings(SiteDB, SiteDB.Employee[rec.employee]).flags

\* C25: in every reachable state, each stored check-in record of an employee
\* whose resolved settings require a location photo (resp. a client biometric
\* photo) has a location (resp. biometric) photo asset attached to it.
C25_RequiredPhotoAttached ==
    \A r \in records :
        /\ RecordFlags(r).required_to_upload_location_photo
              => HasPhotoAttached(files, r, "location")
        /\ RecordFlags(r).required_to_upload_client_bio_metric_photo
              => HasPhotoAttached(files, r, "biometric")

\* C26: in every reachable state, each stored check-in record (IN or OUT) that
\* carries coordinates has its latitude in [-90, 90] and its longitude in
\* [-180, 180], whether or not the call that created it had to pass the
\* geofence.
C26_StoredCoordinatesInRange ==
    \A r \in records :
        /\ r.latitude # None => ( -90 <= r.latitude.num /\ r.latitude.num <= 90 )
        /\ r.longitude # None => ( -180 <= r.longitude.num /\ r.longitude.num <= 180 )

\* usr and pwd are both supplied and are the name and password of a user
GoodLogin(usr, pwd) ==
    usr # "" /\ pwd # "" /\ usr \in DOMAIN Passwords /\ Passwords[usr] = pwd

\* C27: mobile_login changes stored API credentials and returns a token only
\* after (usr, pwd) has been authenticated: a call with usr or pwd missing, or
\* whose authentication fails, raises a validation error, returns no token and
\* leaves the api_key and api_secret of every user unchanged, whatever
\* has_existing_token says.
C27_NoTokenWithoutAuthentication ==
    [][ ( last = NoCall /\ last'.op = "mobile_login" )
        => LET inp == last'.inp
           IN  /\ ~GoodLogin(inp.usr, inp.pwd) =>
                     /\ last'.raised = "ValidationError"
                     /\ last'.token = NoToken
                     /\ ~last'.generated
                     /\ users' = users
                     /\ hashes' = hashes
               /\ ( users' # users \/ last'.token # NoToken \/ last'.generated ) =>
                     ( GoodLogin(inp.usr, inp.pwd) /\ last'.raised = "None" )
      ]_vars

\* after a token had been issued, a login as bob with alice's password and
\* has_existing_token false was refused, and bob's stored pair is the initial one
C27_Witness ==
    /\ last.op = "mobile_login"
    /\ last.inp.usr = "bob" /\ last.inp.pwd = "pw-a"
    /\ last.inp.has_existing_token = Bool(FALSE)
    /\ last.raised = "ValidationError"
    /\ last.exception = "login failed"
    /\ last.token = NoToken
    /\ hashes >= 1
    /\ users["bob"] = InitUsers["bob"]

====
